---- MODULE Spec2Model ----
(***************************************************************************)
(* A model of go-redis-bucket: a Redis-backed leaky-bucket rate limiter.   *)
(*                                                                         *)
(* float64 values are modelled as exact fractions <<n, d>> in lowest terms *)
(* with d >= 0; d = 0 encodes the IEEE specials: <<1,0>> is +Inf, <<-1,0>> *)
(* is -Inf and <<0,0>> is NaN.  Rounding of finite values is not modelled. *)
(* time.Duration is an integer count of ticks, Second ticks to the second  *)
(* (Go counts nanoseconds; the model counts coarser ticks because TLC's    *)
(* integers are 32 bits wide).                                             *)
(***************************************************************************)
EXTENDS Integers, Sequences, FiniteSets, TLC

VARIABLES
    config,     \* the Config handed to the constructor
    limiter,    \* the constructor's return value: l is <<>> (nil) or <<the Limiter>>
    store,      \* the server's bucket state: key -> <<[level, t], ...>>, <<>> when absent
    now,        \* the server's clock, in seconds (the TIME the script reads)
    loaded,     \* whether the server knows the script's SHA1
    pc,         \* each caller's position inside Limiter.Test
    log,        \* the values Limiter.Test has returned, oldest first, each with
                \* the remote calls that Test made
    remote,     \* the remote calls made so far, oldest first
    scaled      \* the last call of a Backoff function: [backoff, value, out]

vars == <<config, limiter, store, now, loaded, pc, log, remote, scaled>>

----------------------------------------------------------------------------
(* float64 *)

Abs(x) == IF x < 0 THEN -x ELSE x

Sign(x) == IF x < 0 THEN -1 ELSE IF x > 0 THEN 1 ELSE 0

RECURSIVE GCD(_, _)
GCD(a, b) == IF b = 0 THEN a ELSE GCD(b, a % b)

\* The fraction n/d in lowest terms with a non-negative denominator.
F(n, d) ==
    IF d = 0 THEN <<Sign(n), 0>>
    ELSE LET g == GCD(Abs(n), Abs(d))
         IN  <<Sign(d) * (n \div g), Abs(d) \div g>>

NaN == <<0, 0>>
PInf == <<1, 0>>
Zero == <<0, 1>>
One == <<1, 1>>

IsNaN(a) == a = NaN
IsFinite(a) == a[2] # 0

FAdd(a, b) == F(a[1] * b[2] + b[1] * a[2], a[2] * b[2])
FSub(a, b) == F(a[1] * b[2] - b[1] * a[2], a[2] * b[2])
FMul(a, b) == F(a[1] * b[1], a[2] * b[2])
\* Division; a zero divisor is the positive zero, so x / 0 is +Inf for x > 0.
FDiv(a, b) == F(a[1] * b[2] * (IF b[1] < 0 THEN -1 ELSE 1), a[2] * Abs(b[1]))

\* Go's comparison operators on float64: every comparison with NaN is false.
FLt(a, b) ==
    /\ ~IsNaN(a)
    /\ ~IsNaN(b)
    /\ IF a[2] = 0 /\ b[2] = 0 THEN a[1] < b[1] ELSE a[1] * b[2] < b[1] * a[2]
FLe(a, b) == ~IsNaN(a) /\ ~IsNaN(b) /\ ~FLt(b, a)
FGt(a, b) == FLt(b, a)
FNe(a, b) == IsNaN(a) \/ IsNaN(b) \/ a # b

FMax(a, b) == IF FLt(a, b) THEN b ELSE a
FMin(a, b) == IF FLt(b, a) THEN b ELSE a

----------------------------------------------------------------------------
(* Buckets *)

\* Duration.Seconds(): a Duration of w whole seconds as a float64.
Seconds(w) == F(w, 1)

RateBucket(flow, burst) == [kind |-> "Rate", Flow |-> flow, Burst |-> burst]
CapacityBucket(window, min, max) ==
    [kind |-> "Capacity", Window |-> window, Min |-> min, Max |-> max]

\* Capacity.Rate with the flow taken from Max.
CapacityRateFlowMax(c) ==
    [flow |-> FDiv(c.Max, Seconds(c.Window)), burst |-> FSub(c.Max, c.Min)]

\* Capacity.Rate with the burst taken to be Max alone.
CapacityRateMaxOnly(c) == [flow |-> FDiv(c.Min, Seconds(c.Window)), burst |-> c.Max]

\* Capacity.Rate: the flow and burst parameters of a Capacity bucket.
CapacityRate(c) ==
    [flow |-> FDiv(c.Min, Seconds(c.Window)), burst |-> FSub(c.Max, c.Min)]

\* Rate.Rate with the two results exchanged.
RateRateSwapped(r) == [flow |-> r.Burst, burst |-> r.Flow]

\* Rate.Rate: the flow and burst parameters of a Rate bucket.
RateRate(r) == [flow |-> r.Flow, burst |-> r.Burst]

\* Bucket.Rate, dispatched on the bucket's type.
BucketRate(b) == IF b.kind = "Rate" THEN RateRate(b) ELSE CapacityRate(b)

----------------------------------------------------------------------------
(* Construction *)

Swap(s, i, j) == [s EXCEPT ![i] = s[j], ![j] = s[i]]

\* The less function given to sort.Slice: by flow, then by burst.
Less(x, y) == IF FNe(x.flow, y.flow) THEN FLt(x.flow, y.flow) ELSE FLt(x.burst, y.burst)

\* The inner loop of insertion sort: sink s[j] while it is less than s[j-1].
RECURSIVE Sink(_, _)
Sink(s, j) ==
    IF j > 1 /\ Less(s[j], s[j - 1]) THEN Sink(Swap(s, j, j - 1), j - 1) ELSE s

\* sort.Slice on a slice of fewer than 12 elements is an insertion sort.
RECURSIVE InsertionSort(_, _)
InsertionSort(s, i) == IF i > Len(s) THEN s ELSE InsertionSort(Sink(s, i), i + 1)

SortRates(rates) == InsertionSort(rates, 2)

\* The pruning test with the comparison reversed.
KeepReversed(r, args) == FGt(r.burst, args[Len(args)])

\* The pruning test with the comparison not strict.
KeepOrEqual(r, args) == FLe(r.burst, args[Len(args)])

\* The pruning test that keeps no rate but the first.
KeepNone(r, args) == FALSE

\* The pruning test: r is kept when its burst is below the last kept burst.
Keep(r, args) == FLt(r.burst, args[Len(args)])

\* The pruning loop over rates[i..], appending to the flat argument list.
RECURSIVE Prune(_, _, _)
Prune(rates, i, args) ==
    IF i > Len(rates) THEN args
    ELSE Prune(rates, i + 1,
               IF Keep(rates[i], args)
               THEN args \o <<rates[i].flow, rates[i].burst>>
               ELSE args)

PruneRates(rates) == Prune(rates, 2, <<rates[1].flow, rates[1].burst>>)

\* The flat argument list <<flow_1, burst_1, ...>> as a list of rates.
RECURSIVE PairUp(_)
PairUp(args) ==
    IF Len(args) < 2 THEN <<>>
    ELSE <<[flow |-> args[1], burst |-> args[2]]>> \o PairUp(SubSeq(args, 3, Len(args)))

\* A list of rates as the flat argument list.
RECURSIVE Flatten(_)
Flatten(rates) ==
    IF rates = <<>> THEN <<>>
    ELSE <<rates[1].flow, rates[1].burst>> \o Flatten(Tail(rates))

\* Pruning done before sorting, and the survivors sorted afterwards.
ConsolidatePruneFirst(rates) == Flatten(SortRates(PairUp(PruneRates(rates))))

\* Sort, then prune: the argument list for the Lua script.
Consolidate(rates) == PruneRates(SortRates(rates))

Linear2 == [kind |-> "Linear", factor |-> F(2, 1)]

\* A Config whose Backoff is nil.
NoBackoff == [kind |-> "nil", factor |-> Zero]

ConfigError == [l |-> <<>>, err |-> "config"]

Resolve(buckets) == [i \in 1..Len(buckets) |-> BucketRate(buckets[i])]

\* The validation of one resolved rate in NewLimiter.
Rejected(r) == FLe(r.flow, Zero) \/ FLe(r.burst, Zero)

\* NewLimiter(c): the limiter and the error it returns.
NewLimiter(c) ==
    IF c.Redis = "nil" THEN ConfigError
    ELSE IF Len(c.Buckets) = 0 THEN ConfigError
    ELSE LET rates == Resolve(c.Buckets)
         IN  IF \E i \in 1..Len(rates) : Rejected(rates[i]) THEN ConfigError
             ELSE [l |-> <<[args |-> Consolidate(rates),
                            redis |-> c.Redis,
                            prefix |-> c.Prefix,
                            backoff |-> IF c.Backoff = NoBackoff THEN Linear2
                                        ELSE c.Backoff]>>,
                   err |-> "nil"]

\* New(redis, bucket, configs...): the options-style constructor, which
\* validates the consolidated arguments instead of every resolved rate.
New(c) ==
    IF c.Redis = "nil" THEN ConfigError
    ELSE LET args == Consolidate(Resolve(c.Buckets))
         IN  IF \E i \in 1..Len(args) : FLe(args[i], Zero) THEN ConfigError
             ELSE [l |-> <<[args |-> args,
                            redis |-> c.Redis,
                            prefix |-> c.Prefix,
                            backoff |-> IF c.Backoff = NoBackoff THEN Linear2
                                        ELSE c.Backoff]>>,
                   err |-> "nil"]

----------------------------------------------------------------------------
(* Backoff *)

\* x to the n-th power, n a natural number, by repeated multiplication.
RECURSIVE IntPow(_, _)
IntPow(x, n) == IF n = 0 THEN One ELSE FMul(x, IntPow(x, n - 1))

\* k to the n-th power on integers.
RECURSIVE NatPow(_, _)
NatPow(k, n) == IF n = 0 THEN 1 ELSE k * NatPow(k, n - 1)

\* Whether r^q <= m, for r >= 1, without computing a power beyond m.
RECURSIVE PowerAtMost(_, _, _)
PowerAtMost(r, q, m) ==
    IF q = 0 THEN 1 <= m ELSE r <= m /\ PowerAtMost(r, q - 1, m \div r)

\* The largest r in lo..hi with r^q <= m, by bisection.
RECURSIVE RootFloor(_, _, _, _)
RootFloor(m, q, lo, hi) ==
    IF lo >= hi THEN lo
    ELSE LET mid == (lo + hi + 1) \div 2
         IN  IF PowerAtMost(mid, q, m) THEN RootFloor(m, q, mid, hi)
             ELSE RootFloor(m, q, lo, mid - 1)

\* math.Pow(x, y).  An integral y is computed exactly; for x > 0 and a
\* fractional y = p/q the irrational result is cut to a multiple of
\* 1/PowScale, the precision this model keeps of it.
PowScale == 100

Pow(x, y) ==
    IF y = Zero \/ x = One THEN One
    ELSE IF IsNaN(x) \/ IsNaN(y) THEN NaN
    ELSE IF ~IsFinite(x) \/ ~IsFinite(y) THEN
        \* the infinite cases of math.Pow that a limiter's backoff can meet
        IF ~IsFinite(y)
        THEN IF FLt(F(Abs(x[1]), x[2]), One) = (y = PInf) THEN Zero ELSE PInf
        ELSE IF FLt(y, Zero) THEN Zero ELSE x
    ELSE IF y[2] = 1 THEN
        IF y[1] >= 0 THEN IntPow(x, y[1]) ELSE FDiv(One, IntPow(x, -y[1]))
    ELSE IF x[1] < 0 THEN NaN
    ELSE IF x[1] = 0 THEN (IF y[1] > 0 THEN Zero ELSE PInf)
    ELSE LET p == Abs(y[1])
             q == y[2]
             up == IF y[1] > 0 THEN x ELSE F(x[2], x[1])
             num == NatPow(up[1], p) * NatPow(PowScale, q)
             den == NatPow(up[2], p)
         IN  F(RootFloor(num \div den, q, 0, num \div den), PowScale)

\* Power.Backoff with the base and the exponent exchanged.
PowerBackoffSwapped(k, value) == Pow(k, value)

ConstantBackoff(k, value) == k
LinearBackoff(k, value) == FMul(k, value)
PowerBackoff(k, value) == Pow(value, k)
ExponentialBackoff(k, value) == Pow(k, value)

\* Backoff.Backoff, dispatched on the backoff's type.
Backoff(b, value) ==
    CASE b.kind = "Constant" -> ConstantBackoff(b.factor, value)
      [] b.kind = "Linear" -> LinearBackoff(b.factor, value)
      [] b.kind = "Power" -> PowerBackoff(b.factor, value)
      [] b.kind = "Exponential" -> ExponentialBackoff(b.factor, value)

----------------------------------------------------------------------------
(* Strings of decimal numbers, as sequences of one-character strings *)

Digits == <<"0", "1", "2", "3", "4", "5", "6", "7", "8", "9">>

DigitChars == {Digits[i] : i \in 1..10}

DigitValue(c) == (CHOOSE i \in 1..10 : Digits[i] = c) - 1

RECURSIVE NatToStr(_)
NatToStr(n) ==
    IF n < 10 THEN <<Digits[n + 1]>> ELSE NatToStr(n \div 10) \o <<Digits[(n % 10) + 1]>>

RECURSIVE StrToNat(_)
StrToNat(s) ==
    IF s = <<>> THEN 0 ELSE 10 * StrToNat(SubSeq(s, 1, Len(s) - 1)) + DigitValue(s[Len(s)])

AllDigits(s) == \A i \in 1..Len(s) : s[i] \in DigitChars

\* The fractional digits of m / 10^places, trailing zeros dropped.
RECURSIVE FracStr(_, _)
FracStr(m, places) ==
    IF m = 0 \/ places = 0 THEN <<>>
    ELSE LET unit == NatPow(10, places - 1)
         IN  <<Digits[(m \div unit) + 1]>> \o FracStr(m % unit, places - 1)

\* The number of fractional digits the script's number formatting keeps.
FracDigits == 3

\* The script's string encoding of a number: decimal, rounded to FracDigits
\* fractional digits, without trailing zeros.
FormatNumber(x) ==
    IF IsNaN(x) THEN <<"n", "a", "n">>
    ELSE IF ~IsFinite(x) THEN (IF x[1] < 0 THEN <<"-">> ELSE <<>>) \o <<"i", "n", "f">>
    ELSE LET unit == NatPow(10, FracDigits)
             m == (2 * Abs(x[1]) * unit + x[2]) \div (2 * x[2])
             frac == FracStr(m % unit, FracDigits)
         IN  (IF x[1] < 0 /\ m > 0 THEN <<"-">> ELSE <<>>)
             \o NatToStr(m \div unit)
             \o (IF frac = <<>> THEN <<>> ELSE <<".">> \o frac)

ParseError == [ok |-> FALSE, v |-> Zero]
Parsed(v) == [ok |-> TRUE, v |-> v]

\* strconv.ParseFloat(val, 64) on an unsigned mantissa: digits, with an
\* optional point among them.
ParseUnsigned(s) ==
    LET dots == {i \in 1..Len(s) : s[i] = "."}
    IN  IF s = <<"i", "n", "f">> THEN Parsed(PInf)
        ELSE IF s = <<"n", "a", "n">> THEN Parsed(NaN)
        ELSE IF dots = {} THEN
            IF s # <<>> /\ AllDigits(s) THEN Parsed(F(StrToNat(s), 1)) ELSE ParseError
        ELSE IF Cardinality(dots) > 1 THEN ParseError
        ELSE LET d == CHOOSE i \in dots : TRUE
                 ip == SubSeq(s, 1, d - 1)
                 fp == SubSeq(s, d + 1, Len(s))
             IN  IF AllDigits(ip) /\ AllDigits(fp) /\ Len(ip) + Len(fp) > 0
                 THEN Parsed(FAdd(F(StrToNat(ip), 1),
                                  F(StrToNat(fp), NatPow(10, Len(fp)))))
                 ELSE ParseError

\* strconv.ParseFloat(val, 64): the value, or a syntax error.
ParseFloat(s) ==
    IF s # <<>> /\ s[1] \in {"-", "+"} THEN
        LET r == ParseUnsigned(Tail(s))
        IN  IF ~r.ok THEN ParseError
            ELSE IF s[1] = "-" THEN Parsed(FSub(Zero, r.v)) ELSE r
    ELSE ParseUnsigned(s)

----------------------------------------------------------------------------
(* The script: the atomic evaluator the server runs for EVAL and EVALSHA *)

\* The values of a reply (Go's any): int64, string, []any and nil.
IntVal(v) == [type |-> "int", int |-> v]
StrVal(s) == [type |-> "string", str |-> s]
ListVal(s) == [type |-> "list", list |-> s]
NilVal == [type |-> "nil"]

\* args is the script's ARGV: <<cost, flow_1, burst_1, ..., flow_n, burst_n>>.
NumTiers(args) == (Len(args) - 1) \div 2
FlowOf(args, i) == args[2 * i]
BurstOf(args, i) == args[2 * i + 1]

\* The stored state of tier i; an absent key reads as level 0 updated now.
BucketOf(st, i, t) == IF st = <<>> THEN [level |-> Zero, t |-> t] ELSE st[i]

\* The time since the last update, negative when the clock went back.
ElapsedSigned(st, i, t) == FSub(t, BucketOf(st, i, t).t)

Elapsed(st, i, t) == FMax(Zero, FSub(t, BucketOf(st, i, t).t))

Decayed(st, args, i, t) ==
    FMax(Zero, FSub(BucketOf(st, i, t).level, FMul(FlowOf(args, i), Elapsed(st, i, t))))

Projected(st, args, i, t) == FAdd(Decayed(st, args, i, t), args[1])

\* The tiers already over their burst before the cost is added.
ViolationsBeforeCost(st, args, t) ==
    {i \in 1..NumTiers(args) : FGt(Decayed(st, args, i, t), BurstOf(args, i))}

Violations(st, args, t) ==
    {i \in 1..NumTiers(args) : FGt(Projected(st, args, i, t), BurstOf(args, i))}

Excess(st, args, i, t) == FSub(Projected(st, args, i, t), BurstOf(args, i))

\* The time tier i needs to decay before the cost fits.
DecayTime(st, args, i, t) == FDiv(Excess(st, args, i, t), FlowOf(args, i))

\* The violating tiers with the largest excess.
ControllingByExcess(st, args, t) ==
    LET over == [i \in Violations(st, args, t) |-> Excess(st, args, i, t)]
    IN  {i \in DOMAIN over : \A j \in DOMAIN over : ~FLt(over[i], over[j])}

\* The violating tiers with the largest decay time.
Controlling(st, args, t) ==
    LET time == [i \in Violations(st, args, t) |-> DecayTime(st, args, i, t)]
    IN  {i \in DOMAIN time : \A j \in DOMAIN time : ~FLt(time[i], time[j])}

RECURSIVE MinFree(_, _, _, _)
MinFree(st, args, i, t) ==
    LET free == FSub(BurstOf(args, i), Projected(st, args, i, t))
    IN  IF i = NumTiers(args) THEN free ELSE FMin(free, MinFree(st, args, i + 1, t))

\* The commit writing only the first tier.
CommittedFirstOnly(st, args, t) ==
    [i \in 1..NumTiers(args) |->
        IF i = 1 THEN [level |-> Projected(st, args, i, t), t |-> t]
        ELSE BucketOf(st, i, t)]

Committed(st, args, t) ==
    [i \in 1..NumTiers(args) |-> [level |-> Projected(st, args, i, t), t |-> t]]

\* The script committing the projected levels of a denied run too.
EvaluateCommitDenied(st, args, t) ==
    IF Violations(st, args, t) = {}
    THEN LET free == StrVal(FormatNumber(MinFree(st, args, 1, t)))
             after == Committed(st, args, t)
         IN  {[raw |-> ListVal(<<IntVal(1), free, IntVal(k)>>), st |-> after] :
                 k \in 0..NumTiers(args)}
    ELSE {[raw |-> ListVal(<<IntVal(0), StrVal(FormatNumber(Excess(st, args, i, t))),
                             IntVal(i)>>),
           st |-> Committed(st, args, t)] : i \in Controlling(st, args, t)}

\* Every outcome of one run of the script on state st at time t: the reply
\* and the state it leaves.  The index of an admission is unspecified, and
\* so is the choice among controlling tiers that tie.
Evaluate(st, args, t) ==
    IF Violations(st, args, t) = {}
    THEN LET free == StrVal(FormatNumber(MinFree(st, args, 1, t)))
             after == Committed(st, args, t)
         IN  {[raw |-> ListVal(<<IntVal(1), free, IntVal(k)>>), st |-> after] :
                 k \in 0..NumTiers(args)}
    ELSE {[raw |-> ListVal(<<IntVal(0), StrVal(FormatNumber(Excess(st, args, i, t))),
                             IntVal(i)>>),
           st |-> st] : i \in Controlling(st, args, t)}

----------------------------------------------------------------------------
(* Limiter.Test *)

\* time.Second, in ticks.
Second == 1000

ZeroResult == [Allow |-> FALSE, Free |-> Zero, Wait |-> 0]

InvalidType == "invalid type returned from eval"

\* validate(raw): the reply's three fields, or an error.
Validate(raw) ==
    IF /\ raw.type = "list"
       /\ Len(raw.list) = 3
       /\ raw.list[1].type = "int"
       /\ raw.list[2].type = "string"
       /\ ParseFloat(raw.list[2].str).ok
       /\ raw.list[3].type = "int"
    THEN [allow |-> raw.list[1].int, value |-> ParseFloat(raw.list[2].str).v,
          index |-> raw.list[3].int,
          err |-> "nil"]
    ELSE [allow |-> 0, value |-> Zero, index |-> 0, err |-> InvalidType]

\* The largest Duration (an int64 in Go, an integer of TLC's width here).
MaxDuration == 2147483647

\* time.Duration(x): the float64 to int64 conversion, which cuts the fraction.
\* Of a value no int64 holds, the result depends on the implementation: the
\* smallest integer, the largest, or zero.
ToDuration(x) ==
    IF ~IsFinite(x) THEN {-MaxDuration, MaxDuration, 0}
    ELSE {Sign(x[1]) * (Abs(x[1]) \div x[2])}

\* The wait computed from the burst of the tier, the argument after its flow.
WaitOfBurst(l, args, value, index) ==
    ToDuration(FMul(FMul(FDiv(args[1], args[2 * index + 1]),
                         Backoff(l.backoff, FDiv(value, args[1]))),
                    F(Second, 1)))

\* The wait of a denial: (cost / flow) * backoff(value / cost), as a Duration.
WaitOf(l, args, value, index) ==
    ToDuration(FMul(FMul(FDiv(args[1], args[2 * index]),
                         Backoff(l.backoff, FDiv(value, args[1]))),
                    F(Second, 1)))

\* Test validating the reply without looking at exec's error.
DecodeIgnoringError(l, args, raw, err) ==
    LET v == Validate(raw)
    IN  IF v.err # "nil" THEN {[res |-> ZeroResult, err |-> v.err]}
        ELSE IF v.allow = 1
        THEN {[res |-> [Allow |-> TRUE, Free |-> v.value, Wait |-> 0], err |-> "nil"]}
        ELSE IF 2 * v.index \notin 1..Len(args)
        THEN {[res |-> ZeroResult, err |-> "panic: index out of range"]}
        ELSE {[res |-> [Allow |-> FALSE, Free |-> Zero, Wait |-> w], err |-> "nil"] :
                 w \in WaitOf(l, args, v.value, v.index)}

\* Test returning an admission without its free capacity.
DecodeWithoutFree(l, args, raw, err) ==
    IF err # "nil" THEN {[res |-> ZeroResult, err |-> err]}
    ELSE LET v == Validate(raw)
         IN  IF v.err # "nil" THEN {[res |-> ZeroResult, err |-> v.err]}
             ELSE IF v.allow = 1
             THEN {[res |-> [Allow |-> TRUE, Free |-> Zero, Wait |-> 0], err |-> "nil"]}
             ELSE IF 2 * v.index \notin 1..Len(args)
             THEN {[res |-> ZeroResult, err |-> "panic: index out of range"]}
             ELSE {[res |-> [Allow |-> FALSE, Free |-> Zero, Wait |-> w], err |-> "nil"] :
                      w \in WaitOf(l, args, v.value, v.index)}

\* What Test returns once exec has returned (raw, err): the set of the
\* possible (Result, error) pairs, one unless a conversion is undefined.
Decode(l, args, raw, err) ==
    IF err # "nil" THEN {[res |-> ZeroResult, err |-> err]}
    ELSE LET v == Validate(raw)
         IN  IF v.err # "nil" THEN {[res |-> ZeroResult, err |-> v.err]}
             ELSE IF v.allow = 1
             THEN {[res |-> [Allow |-> TRUE, Free |-> v.value, Wait |-> 0], err |-> "nil"]}
             ELSE IF 2 * v.index \notin 1..Len(args)
             THEN {[res |-> ZeroResult, err |-> "panic: index out of range"]}
             ELSE {[res |-> [Allow |-> FALSE, Free |-> Zero, Wait |-> w], err |-> "nil"] :
                      w \in WaitOf(l, args, v.value, v.index)}

Idle == [at |-> "idle"]

\* The first remote call of exec: by SHA1 when the client supports it.
FirstCommand(l) == IF l.redis = "evalsha" THEN "EvalSha" ELSE "Eval"

NotConstructed == [l |-> <<>>, err |-> "nil", by |-> "none"]

Constructed == limiter.by # "none" /\ limiter.err = "nil"

\* The Limiter the constructor returned.
TheLimiter == limiter.l[1]

\* Test, up to its first remote call: the keys and arguments are built and
\* the call is on its way to the server.
Call(p, key, cost) ==
    /\ Constructed
    /\ pc[p] = Idle
    /\ LET l == TheLimiter
           cmd == FirstCommand(l)
       IN  /\ pc' = [pc EXCEPT ![p] = [at |-> "sent", cmd |-> cmd,
                                       key |-> l.prefix \o key,
                                       args |-> <<cost>> \o l.args,
                                       calls |-> <<>>]]
           /\ remote' = Append(remote, [caller |-> p, cmd |-> cmd])
    /\ UNCHANGED <<config, limiter, store, now, loaded, log, scaled>>

\* The remote calls of the Test under way that have returned, and the one
\* returning now with err.
Made(p, err) ==
    Append(pc[p].calls,
           [cmd |-> pc[p].cmd, key |-> pc[p].key, args |-> pc[p].args, err |-> err])

\* The server keeping one state for all keys.
ServeOneState(p) ==
    /\ pc[p].at = "sent"
    /\ IF pc[p].cmd = "EvalSha" /\ ~loaded
       THEN /\ pc' = [pc EXCEPT ![p] = [pc[p] EXCEPT !.at = "replied",
                                                     !.calls = Made(p, "NOSCRIPT")]
                                        @@ [raw |-> NilVal, err |-> "NOSCRIPT", t |-> now]]
            /\ UNCHANGED <<store, loaded>>
       ELSE \E out \in Evaluate(store[pc[p].key], pc[p].args, now) :
                /\ pc' = [pc EXCEPT ![p] = [pc[p] EXCEPT !.at = "replied",
                                                         !.calls = Made(p, "nil")]
                                           @@ [raw |-> out.raw, err |-> "nil", t |-> now]]
                /\ store' = [key \in DOMAIN store |-> out.st]
                /\ loaded' = (loaded \/ pc[p].cmd = "Eval")
    /\ UNCHANGED <<config, limiter, now, log, remote, scaled>>

\* The server runs one command, atomically: an EVALSHA of an unknown script
\* fails with NOSCRIPT; otherwise the script runs on the key's state, and an
\* EVAL leaves the script cached.
Serve(p) ==
    /\ pc[p].at = "sent"
    /\ IF pc[p].cmd = "EvalSha" /\ ~loaded
       THEN /\ pc' = [pc EXCEPT ![p] = [pc[p] EXCEPT !.at = "replied",
                                                     !.calls = Made(p, "NOSCRIPT")]
                                        @@ [raw |-> NilVal, err |-> "NOSCRIPT", t |-> now]]
            /\ UNCHANGED <<store, loaded>>
       ELSE \E out \in Evaluate(store[pc[p].key], pc[p].args, now) :
                /\ pc' = [pc EXCEPT ![p] = [pc[p] EXCEPT !.at = "replied",
                                                         !.calls = Made(p, "nil")]
                                           @@ [raw |-> out.raw, err |-> "nil", t |-> now]]
                /\ store' = [store EXCEPT ![pc[p].key] = out.st]
                /\ loaded' = (loaded \/ pc[p].cmd = "Eval")
    /\ UNCHANGED <<config, limiter, now, log, remote, scaled>>

\* An implementation of Eval or EvalSha returns (raw, err) to the call of p
\* without running the script.
Answer(p, raw, err) ==
    /\ pc[p].at = "sent"
    /\ pc' = [pc EXCEPT ![p] = [pc[p] EXCEPT !.at = "replied", !.calls = Made(p, err)]
                               @@ [raw |-> raw, err |-> err, t |-> now]]
    /\ UNCHANGED <<config, limiter, store, now, loaded, log, remote, scaled>>

\* exec sending the script body by Eval after every error of EvalSha.
FallbackOnAnyError(p) ==
    /\ pc[p].at = "replied"
    /\ pc[p].cmd = "EvalSha"
    /\ pc[p].err # "nil"
    /\ pc' = [pc EXCEPT ![p] = [at |-> "sent", cmd |-> "Eval", key |-> pc[p].key,
                                args |-> pc[p].args, calls |-> pc[p].calls]]
    /\ remote' = Append(remote, [caller |-> p, cmd |-> "Eval"])
    /\ UNCHANGED <<config, limiter, store, now, loaded, log, scaled>>

\* exec sending the script body by Eval after every reply to EvalSha.
FallbackAlways(p) ==
    /\ pc[p].at = "replied"
    /\ pc[p].cmd = "EvalSha"
    /\ pc' = [pc EXCEPT ![p] = [at |-> "sent", cmd |-> "Eval", key |-> pc[p].key,
                                args |-> pc[p].args, calls |-> pc[p].calls]]
    /\ remote' = Append(remote, [caller |-> p, cmd |-> "Eval"])
    /\ UNCHANGED <<config, limiter, store, now, loaded, log, scaled>>

\* exec after EvalSha failed with NOSCRIPT: the script body is sent by Eval.
Fallback(p) ==
    /\ pc[p].at = "replied"
    /\ pc[p].cmd = "EvalSha"
    /\ pc[p].err = "NOSCRIPT"
    /\ pc' = [pc EXCEPT ![p] = [at |-> "sent", cmd |-> "Eval", key |-> pc[p].key,
                                args |-> pc[p].args, calls |-> pc[p].calls]]
    /\ remote' = Append(remote, [caller |-> p, cmd |-> "Eval"])
    /\ UNCHANGED <<config, limiter, store, now, loaded, log, scaled>>

\* exec returns and Test decodes the reply into its Result.
Return(p) ==
    /\ pc[p].at = "replied"
    /\ ~(pc[p].cmd = "EvalSha" /\ pc[p].err = "NOSCRIPT")
    /\ \E d \in Decode(TheLimiter, pc[p].args, pc[p].raw, pc[p].err) :
          log' = Append(log, [caller |-> p, key |-> pc[p].key, cost |-> pc[p].args[1],
                              at |-> pc[p].t, res |-> d.res, err |-> d.err,
                              calls |-> pc[p].calls])
    /\ pc' = [pc EXCEPT ![p] = Idle]
    /\ UNCHANGED <<config, limiter, store, now, loaded, remote, scaled>>

\* Time passes on the server's clock.
Tick(dt) ==
    /\ now' = FAdd(now, dt)
    /\ UNCHANGED <<config, limiter, store, loaded, pc, log, remote, scaled>>

DoNewLimiter ==
    /\ limiter = NotConstructed
    /\ limiter' = NewLimiter(config) @@ [by |-> "NewLimiter"]
    /\ UNCHANGED <<config, store, now, loaded, pc, log, remote, scaled>>

DoNew ==
    /\ limiter = NotConstructed
    /\ Len(config.Buckets) >= 1
    /\ limiter' = New(config) @@ [by |-> "New"]
    /\ UNCHANGED <<config, store, now, loaded, pc, log, remote, scaled>>

----------------------------------------------------------------------------
(* The state every specification starts from *)

\* The number of concurrent callers of Test.
NumCallers == 2

Callers == 1..NumCallers

KeyA == <<"a">>
KeyB == <<"b">>
Keys == {KeyA, KeyB}

NoPrefix == <<>>

Range(s) == {s[i] : i \in 1..Len(s)}

NotScaled == [backoff |-> NoBackoff, value |-> Zero, out |-> Zero]

Fresh ==
    /\ limiter = NotConstructed
    /\ store = [k \in Keys |-> <<>>]
    /\ now = One
    /\ loaded = FALSE
    /\ pc = [p \in Callers |-> Idle]
    /\ log = <<>>
    /\ remote = <<>>
    /\ scaled = NotScaled

----------------------------------------------------------------------------
(* Construction: every list of buckets, in every order *)

\* The longest list of buckets tried in every combination.
MaxBuckets == 3

\* The five rates of TestSuperfluousRates.
Superfluous ==
    <<RateBucket(F(1, 10), F(4, 1)),
      RateBucket(F(2, 10), F(3, 1)),
      RateBucket(F(2, 10), F(2, 1)),
      RateBucket(F(3, 10), F(2, 1)),
      RateBucket(F(4, 10), F(1, 1))>>

\* The buckets of TestBasicValidation, with a zero window and a negative
\* window under a negative minimum beside them.
BucketSet ==
    Range(Superfluous) \cup
    {RateBucket(F(1, 1), F(0, 1)),
     CapacityBucket(60, F(10, 1), F(20, 1)),
     CapacityBucket(-60, F(10, 1), F(20, 1)),
     CapacityBucket(60, F(10, 1), F(10, 1)),
     CapacityBucket(0, F(10, 1), F(20, 1)),
     CapacityBucket(-60, F(-10, 1), F(20, 1))}

SuperfluousOrders ==
    {[i \in 1..Len(Superfluous) |-> Superfluous[f[i]]] :
        f \in Permutations(1..Len(Superfluous))}

BucketLists ==
    UNION {[1..n -> BucketSet] : n \in 0..MaxBuckets} \cup SuperfluousOrders

InitNew ==
    /\ config \in [Redis : {"nil", "eval"}, Backoff : {NoBackoff}, Prefix : {NoPrefix},
                   Buckets : BucketLists]
    /\ Fresh

AllFinite(args) == \A i \in 1..Len(args) : IsFinite(args[i])

\* One Test of cost 1 on the limiter just built, as TestSuperfluousRates makes.
ProbeCall ==
    /\ remote = <<>>
    /\ Constructed
    /\ AllFinite(TheLimiter.args)
    /\ Call(1, KeyA, One)

ProbeServe == Serve(1)

ProbeReturn == Return(1)

NextNew == DoNewLimiter \/ DoNew \/ ProbeCall \/ ProbeServe \/ ProbeReturn

SpecNew == InitNew /\ [][NextNew]_vars

\* A configuration the constructor is to refuse.
Refused(c) ==
    \/ c.Redis = "nil"
    \/ c.Buckets = <<>>
    \/ \E b \in Range(c.Buckets) :
        \/ b.kind = "Capacity" /\ b.Window <= 0
        \/ b.kind = "Capacity" /\ b.Max = b.Min
        \/ b.kind = "Rate" /\ b.Burst = Zero

\* C1: NewLimiter returns a configuration error, no Limiter, and makes no
\* remote call, for every configuration with a nil client, no buckets, a
\* Capacity of Window <= 0 (whatever its Min and Max), a Capacity of
\* Max = Min, or a Rate of Burst = 0.
C1_RefusesBadConfig ==
    (limiter.by = "NewLimiter" /\ Refused(config))
        => (limiter.err # "nil" /\ limiter.l = <<>> /\ remote = <<>>)

Dominates(o, r) == o # r /\ FLe(o.flow, r.flow) /\ FLe(o.burst, r.burst)

SuperfluousArgs ==
    <<One, F(1, 10), F(4, 1), F(2, 10), F(2, 1), F(4, 10), F(1, 1)>>

\* C6: the consolidated list is exactly the input tiers no other input tier
\* dominates, in strictly ascending flow and strictly descending burst (so
\* without duplicates); and for the five rates of TestSuperfluousRates, in
\* any order, a Test of cost 1 sends <<1, 0.1, 4, 0.2, 2, 0.4, 1>>.
C6_Consolidation ==
    /\ Constructed =>
        LET in == Range(Resolve(config.Buckets))
            out == PairUp(TheLimiter.args)
        IN  /\ Range(out) = {r \in in : ~\E o \in in : Dominates(o, r)}
            /\ \A i, j \in 1..Len(out) :
                i < j => FLt(out[i].flow, out[j].flow) /\ FGt(out[i].burst, out[j].burst)
    /\ (config.Buckets \in SuperfluousOrders /\ pc[1].at = "sent")
        => pc[1].args = SuperfluousArgs

C6_Witness ==
    /\ config.Buckets \in SuperfluousOrders
    /\ config.Buckets # Superfluous
    /\ limiter.by = "NewLimiter"
    /\ pc[1].at = "sent"
    /\ pc[1].args = SuperfluousArgs

\* C7: consolidating the consolidated list again returns it unchanged,
\* element for element.
C7_Idempotent ==
    Constructed => Consolidate(PairUp(TheLimiter.args)) = TheLimiter.args

C7_Witness ==
    /\ Constructed
    /\ Len(TheLimiter.args) >= 4
    /\ Len(config.Buckets) > Len(PairUp(TheLimiter.args))
    /\ Consolidate(PairUp(TheLimiter.args)) = TheLimiter.args

----------------------------------------------------------------------------
(* The backoff functions on their own *)

\* The largest whole factor and the largest whole value tried.
MaxFactor == 3
MaxValue == 3

Half == F(1, 2)

Factors == {F(k, 1) : k \in 0..MaxFactor} \cup {Half, F(3, 2)}

Values == {F(r, 1) : r \in 0..MaxValue} \cup {Half, F(3, 2)}

BackoffKinds == {"Constant", "Linear", "Power", "Exponential"}

InitBackoff ==
    /\ config = [Redis |-> "eval", Backoff |-> NoBackoff, Prefix |-> NoPrefix,
                 Buckets |-> <<>>]
    /\ Fresh

\* b.Backoff(value) is called.
Scale(b, value) ==
    /\ scaled' = [backoff |-> b, value |-> value, out |-> Backoff(b, value)]
    /\ UNCHANGED <<config, limiter, store, now, loaded, pc, log, remote>>

NextBackoff ==
    \E kind \in BackoffKinds, k \in Factors, r \in Values :
        Scale([kind |-> kind, factor |-> k], r)

SpecBackoff == InitBackoff /\ [][NextBackoff]_vars

IsWhole(x) == x[2] = 1 /\ x[1] >= 0

\* x to the whole power n, with the exponentiation of the integers.
WholePower(x, n) == IF n = 0 THEN One ELSE F(x[1] ^ n, x[2] ^ n)

\* out is x to the fractional power y, cut to a multiple of 1/PowScale.
IsRootOf(out, x, y) ==
    /\ FLe(IntPow(out, y[2]), IntPow(x, y[1]))
    /\ FLt(IntPow(x, y[1]), IntPow(FAdd(out, F(1, PowScale)), y[2]))

IsPower(out, x, y) ==
    IF IsWhole(y) THEN out = WholePower(x, y[1])
    ELSE IF x = Zero THEN out = Zero
    ELSE IsRootOf(out, x, y)

\* C8: Constant(k)(r) = k, Linear(k)(r) = k*r, Power(k)(r) = r^k and
\* Exponential(k)(r) = k^r for every factor k and value r; with k = 2 and
\* r = 3 they return 2, 6, 9 and 8.
C8_BackoffLaws ==
    LET kind == scaled.backoff.kind
        k == scaled.backoff.factor
        r == scaled.value
        out == scaled.out
    IN  /\ kind = "Constant" => out = k
        /\ kind = "Linear" => out = F(k[1] * r[1], k[2] * r[2])
        /\ kind = "Power" => IsPower(out, r, k)
        /\ kind = "Exponential" => IsPower(out, k, r)
        /\ (k = F(2, 1) /\ r = F(3, 1)) =>
            /\ kind = "Constant" => out = F(2, 1)
            /\ kind = "Linear" => out = F(6, 1)
            /\ kind = "Power" => out = F(9, 1)
            /\ kind = "Exponential" => out = F(8, 1)

C8_Witness ==
    /\ scaled.backoff = [kind |-> "Power", factor |-> F(2, 1)]
    /\ scaled.value = F(3, 1)
    /\ scaled.out = F(9, 1)

----------------------------------------------------------------------------
(* The metric tests: one caller testing cost 1 at a uniform spacing *)

\* The number of Tests a run makes.
MaxTests == 124

RateOfTest == RateBucket(Half, F(9, 1))
CapacityOfTest == CapacityBucket(60, F(10, 1), F(20, 1))
SubsecondOfTest == CapacityBucket(1, F(4, 1), F(5, 1))
SlowOfTest == RateBucket(F(1, 4), F(18, 1))
FastOfTest == RateBucket(Half, F(9, 1))

MetricConfig(buckets, backoff) ==
    [Redis |-> "evalsha", Backoff |-> backoff, Prefix |-> NoPrefix, Buckets |-> buckets]

RateConfig == MetricConfig(<<RateOfTest>>, NoBackoff)
CapacityConfig == MetricConfig(<<CapacityOfTest>>, NoBackoff)
SubsecondConfig == MetricConfig(<<SubsecondOfTest>>, NoBackoff)
MultipleConfig ==
    MetricConfig(<<SlowOfTest, FastOfTest>>, [kind |-> "Exponential", factor |-> F(2, 1)])

\* What the test sleeps between two Tests.
Spacing == IF config = SubsecondConfig THEN F(1, 8) ELSE One

InitMetrics ==
    /\ config \in {RateConfig, CapacityConfig, SubsecondConfig, MultipleConfig}
    /\ Fresh

\* The time of the n-th Test, n counted from 0.
TimeOfTest(n) == FAdd(One, FMul(F(n, 1), Spacing))

MetricCall ==
    /\ Len(log) < MaxTests
    /\ now = TimeOfTest(Len(log))
    /\ Call(1, KeyA, One)

MetricServe == Serve(1)

MetricFallback == Fallback(1)

MetricReturn == Return(1)

MetricSleep ==
    /\ pc[1] = Idle
    /\ Len(log) >= 1
    /\ now = TimeOfTest(Len(log) - 1)
    /\ Tick(Spacing)

NextMetrics ==
    DoNewLimiter \/ MetricCall \/ MetricServe \/ MetricFallback \/ MetricReturn \/ MetricSleep

SpecMetrics == InitMetrics /\ [][NextMetrics]_vars

\* calcTime, calcLoop and calcLeft of the tests.
CalcTime(b, bound) ==
    FAdd(bound, FDiv(FSub(BucketRate(b).burst, bound), FSub(One, BucketRate(b).flow)))
CalcLoop(b) == FDiv(One, BucketRate(b).flow)
CalcLeft(b, used, bound) ==
    FSub(BucketRate(b).burst,
         FAdd(bound, FMul(FSub(used, bound), FSub(One, BucketRate(b).flow))))

Allowed(k) == log[k].err = "nil" /\ log[k].res.Allow

Denied(k) == log[k].err = "nil" /\ ~log[k].res.Allow

\* The number of Tests from..to that were allowed.
AllowedIn(from, to) == Cardinality({k \in from..to : Allowed(k)})

\* The first n Tests were all allowed, with Free falling by 1 - flow from burst - 1.
BurstAllowed(b, n) ==
    \A k \in 1..Len(log) :
        k <= n =>
            /\ log[k].err = "nil"
            /\ log[k].res =
                [Allow |-> TRUE,
                 Free |-> FSub(FSub(BucketRate(b).burst, One),
                               FMul(F(k - 1, 1), FSub(One, BucketRate(b).flow))),
                 Wait |-> 0]

\* Every window of n consecutive Tests within from..to holds one allowed Test.
OneInEvery(n, from, to) ==
    \A k \in from..(to - n + 1) : k + n - 1 <= Len(log) => AllowedIn(k, k + n - 1) = 1

\* The number of Tests of the initial burst: calcTime seconds, one a second.
BurstTests(b) == CalcTime(b, One)[1]

\* C2: for the tier (0.5, 9) and cost 1 tested once a second on a fresh key,
\* the first 17 Tests are allowed with Free = 8, 7.5, 7, ..., and from then
\* on every window of 2 consecutive Tests holds exactly one allowed Test.
C2_RateMetrics ==
    config = RateConfig =>
        /\ BurstTests(RateOfTest) = 17
        /\ BurstAllowed(RateOfTest, BurstTests(RateOfTest))
        /\ OneInEvery(CalcLoop(RateOfTest)[1], BurstTests(RateOfTest) + 1, MaxTests + 1)

C2_Witness ==
    /\ config = RateConfig
    /\ Len(log) >= 25
    /\ log[17].res = [Allow |-> TRUE, Free |-> Zero, Wait |-> 0]
    /\ Denied(18)
    /\ Allowed(19)

\* The number of Tests the test makes over the window of a Capacity.
WindowTests(b) == FDiv(Seconds(b.Window), Spacing)[1]

\* The Tests from, from + 1, ... over one window of b allow between Min and Max.
WithinCapacity(b, from) ==
    LET to == from + WindowTests(b) - 1
    IN  Len(log) >= to =>
            /\ FLe(b.Min, F(AllowedIn(from, to), 1))
            /\ FLe(F(AllowedIn(from, to), 1), b.Max)

\* C3: cost 1 tested at a uniform spacing over one Window of a Capacity is
\* allowed between Min and Max times: for (60s, 10, 20) once a second on a
\* fresh key and again over the window that follows, and for (1s, 4, 5)
\* every 0.125s.
C3_CapacityMetrics ==
    /\ config = CapacityConfig =>
        /\ WindowTests(CapacityOfTest) = 60
        /\ WithinCapacity(CapacityOfTest, 1)
        /\ WithinCapacity(CapacityOfTest, WindowTests(CapacityOfTest) + 1)
    /\ config = SubsecondConfig =>
        /\ WindowTests(SubsecondOfTest) = 8
        /\ WithinCapacity(SubsecondOfTest, 1)

C3_Witness ==
    /\ config = CapacityConfig
    /\ Len(log) = 2 * WindowTests(CapacityOfTest)
    /\ AllowedIn(1, 60) \in 10..20
    /\ AllowedIn(61, 120) \in 10..20
    /\ AllowedIn(1, 60) # AllowedIn(61, 120)

\* The seconds the fast rate binds before the slow burst is used up.
TimeSlow ==
    FMul(CalcTime(RateBucket(FDiv(SlowOfTest.Flow, FastOfTest.Flow),
                             CalcLeft(SlowOfTest, CalcTime(FastOfTest, One), One)),
                  Zero),
         CalcLoop(FastOfTest))[1]

\* The first Test of the slow rate's steady state.
SlowFrom == BurstTests(FastOfTest) + TimeSlow + 1

\* C9: with Exponential(2), the tiers (0.25, 18) and (0.5, 9) and cost 1
\* tested once a second, once the slow tier is in its steady state a denial
\* that directly follows a denial has twice the Wait of that denial.
C9_WaitDoubles ==
    config = MultipleConfig =>
        \A k \in SlowFrom..Len(log) :
            (k + 1 <= Len(log) /\ Denied(k) /\ Denied(k + 1))
                => log[k + 1].res.Wait = 2 * log[k].res.Wait

\* C10: for the tiers (0.25, 18) and (0.5, 9) and cost 1 tested once a second
\* on a fresh key, the first 17 Tests are allowed with Free = 8, 7.5, 7, ...;
\* over the next 20 seconds every window of 2 consecutive Tests holds exactly
\* one allowed Test; after that every window of 4 does.
C10_MultipleRates ==
    config = MultipleConfig =>
        /\ BurstTests(FastOfTest) = 17
        /\ TimeSlow = 20
        /\ BurstAllowed(FastOfTest, BurstTests(FastOfTest))
        /\ OneInEvery(CalcLoop(FastOfTest)[1], BurstTests(FastOfTest) + 1, SlowFrom - 1)
        /\ OneInEvery(CalcLoop(SlowOfTest)[1], SlowFrom, MaxTests + 1)

C10_Witness ==
    /\ config = MultipleConfig
    /\ Len(log) >= SlowFrom + 8
    /\ Allowed(17)
    /\ Denied(18)
    /\ Allowed(37)
    /\ Denied(38) /\ Denied(39) /\ Denied(40)
    /\ Allowed(41)

----------------------------------------------------------------------------
(* Concurrent callers: any interleaving of Tests on a shared server *)

\* The number of Tests started in a run.
MaxCalls == 3

\* The last second of the server's clock.
MaxClock == 3

Costs == {One, F(2, 1)}

SmallRate == RateBucket(Half, F(2, 1))
SmallCapacity == CapacityBucket(2, F(1, 1), F(3, 1))
SmallSlow == RateBucket(F(1, 4), F(3, 1))

SmallConfig(redis, buckets) ==
    [Redis |-> redis, Backoff |-> NoBackoff, Prefix |-> NoPrefix, Buckets |-> buckets]

Init ==
    /\ config \in {SmallConfig("evalsha", <<SmallCapacity>>),
                   SmallConfig("eval", <<SmallSlow, SmallRate>>)}
    /\ Fresh

\* The key the callers share.
Shared == {KeyA}

\* The Tests started so far: those that returned and those under way.
Started == Len(log) + Cardinality({p \in Callers : pc[p] # Idle})

Start(p, key, cost) ==
    /\ Started < MaxCalls
    /\ Call(p, key, cost)

Pass ==
    /\ FLt(now, F(MaxClock, 1))
    /\ Tick(One)

Next ==
    \/ DoNewLimiter
    \/ \E p \in Callers, key \in Shared, cost \in Costs : Start(p, key, cost)
    \/ \E p \in Callers : Serve(p)
    \/ \E p \in Callers : Fallback(p)
    \/ \E p \in Callers : Return(p)
    \/ Pass

Spec == Init /\ [][Next]_vars

\* The allowed Tests of a key in the log.
Admitted(key) == {k \in 1..Len(log) : log[k].key = key /\ Allowed(k)}

\* Those of them the server ran between two times.
AdmittedIn(key, from, to) ==
    {k \in Admitted(key) : FLe(from, log[k].at) /\ FLe(log[k].at, to)}

RECURSIVE SumCost(_)
SumCost(S) ==
    IF S = {} THEN Zero
    ELSE LET k == CHOOSE k \in S : TRUE IN FAdd(log[k].cost, SumCost(S \ {k}))

\* C4: for every configured tier (flow, burst) and every key, the costs
\* allowed within any interval of length W sum to at most burst + flow * W;
\* for a Capacity and W no longer than its Window they sum to at most Max.
C4_MaxIsAbsolute ==
    \A key \in Keys : \A i, j \in Admitted(key) :
        FLe(log[i].at, log[j].at) =>
            LET W == FSub(log[j].at, log[i].at)
                sum == SumCost(AdmittedIn(key, log[i].at, log[j].at))
            IN  \A b \in Range(config.Buckets) :
                    /\ FLe(sum, FAdd(BucketRate(b).burst, FMul(BucketRate(b).flow, W)))
                    /\ (b.kind = "Capacity" /\ FLe(W, Seconds(b.Window)))
                           => FLe(sum, b.Max)

C4_Witness ==
    /\ config.Buckets = <<SmallCapacity>>
    /\ \E i, j \in Admitted(KeyA) :
          /\ FSub(log[j].at, log[i].at) = Seconds(SmallCapacity.Window)
          /\ SumCost(AdmittedIn(KeyA, log[i].at, log[j].at)) = SmallCapacity.Max
    /\ \E k \in 1..Len(log) : log[k].key = KeyA /\ Denied(k)

\* A run of the script the server has made: of a Test that returned, the
\* Result it returned; of one whose reply is on its way, the reply.
Returned(k) ==
    [key |-> log[k].key, cost |-> log[k].cost, at |-> log[k].at,
     done |-> TRUE, res |-> log[k].res, raw |-> NilVal]

Replied(p) ==
    [key |-> pc[p].key, cost |-> pc[p].args[1], at |-> pc[p].t,
     done |-> FALSE, res |-> ZeroResult, raw |-> pc[p].raw]

\* The callers whose script has run and whose reply has not been decoded.
Answered == {p \in Callers : pc[p].at = "replied" /\ pc[p].err = "nil"}

RECURSIVE SeqOf(_)
SeqOf(S) ==
    IF S = {} THEN <<>>
    ELSE LET x == CHOOSE x \in S : TRUE IN <<x>> \o SeqOf(S \ {x})

Runs == [k \in 1..Len(log) |-> Returned(k)]
            \o [i \in 1..Cardinality(Answered) |-> Replied(SeqOf(Answered)[i])]

\* Whether an outcome of the script is the one the run e showed.
Shows(e, args, out) ==
    IF e.done THEN \E d \in Decode(TheLimiter, args, out.raw, "nil") :
                       d.err = "nil" /\ d.res = e.res
    ELSE out.raw = e.raw

\* Whether running runs[f[i]], runs[f[i + 1]], ... one after another from
\* the states st shows the outcomes seen and leaves the server's states.
RECURSIVE OneByOne(_, _, _, _)
OneByOne(runs, f, i, st) ==
    IF i > Len(runs) THEN st = store
    ELSE LET e == runs[f[i]]
             args == <<e.cost>> \o TheLimiter.args
             left == {out.st : out \in {o \in Evaluate(st[e.key], args, e.at) :
                                             Shows(e, args, o)}}
         IN  \E after \in left : OneByOne(runs, f, i + 1, [st EXCEPT ![e.key] = after])

\* Some order of the runs, by the server's clock, explains every outcome.
Linearizable ==
    LET runs == Runs
    IN  \E f \in Permutations(1..Len(runs)) :
            /\ \A i \in 1..(Len(runs) - 1) : FLe(runs[f[i]].at, runs[f[i + 1]].at)
            /\ OneByOne(runs, f, 1, [k \in Keys |-> <<>>])

\* C5: the outcomes of any interleaving of the callers' Tests are those of
\* running the same Tests one after another in some order, and on every key
\* the cost-1 Tests allowed since any of them number at most burst plus flow
\* times the time elapsed since.
C5_Linearizable ==
    /\ Linearizable
    /\ \A key \in Keys : \A i \in Admitted(key) :
          LET ones == {k \in AdmittedIn(key, log[i].at, now) : log[k].cost = One}
          IN  \A b \in Range(config.Buckets) :
                  FLe(F(Cardinality(ones), 1),
                      FAdd(BucketRate(b).burst,
                           FMul(BucketRate(b).flow, FSub(now, log[i].at))))

\* Two callers' Tests of cost 2 on one key ran at the same time with room
\* for one: one was allowed and the other denied.
C5_Witness ==
    /\ config.Buckets = <<SmallCapacity>>
    /\ \E i, j \in 1..Len(log) :
          /\ log[i].caller # log[j].caller
          /\ log[i].key = log[j].key
          /\ log[i].at = log[j].at
          /\ log[i].cost = F(2, 1) /\ log[j].cost = F(2, 1)
          /\ Allowed(i)
          /\ Denied(j)

----------------------------------------------------------------------------
(* The protocol: Test on any implementation of Eval and EvalSha *)

\* The number of Tests made in a run.
MaxProbes == 2

\* The error of errorPassingTester.
UnknownError == "unknown error"

KeyPrefix == <<"p", ":">>

AllowFields == {IntVal(0), IntVal(1), IntVal(2), StrVal(<<"1">>)}
ValueFields == {StrVal(<<"1", ".", "5">>), StrVal(<<"x">>), IntVal(1)}
IndexFields == {IntVal(-1), IntVal(0), IntVal(1), IntVal(2), IntVal(3), StrVal(<<"1">>)}

\* The values an implementation may return: lists of three fields of every
\* type, lists of other lengths, and values that are no list.
Responses ==
    {ListVal(<<a, v, i>>) : a \in AllowFields, v \in ValueFields, i \in IndexFields}
    \cup {NilVal, IntVal(1), ListVal(<<>>),
          ListVal(<<IntVal(1), StrVal(<<"1", ".", "5">>)>>),
          ListVal(<<IntVal(1), StrVal(<<"1", ".", "5">>), IntVal(1), IntVal(1)>>)}

Answers ==
    {[raw |-> r, err |-> "nil"] : r \in Responses}
    \cup {[raw |-> NilVal, err |-> e] : e \in {"NOSCRIPT", UnknownError}}

Exponential2 == [kind |-> "Exponential", factor |-> F(2, 1)]

ProtocolConfig(redis, backoff, prefix) ==
    [Redis |-> redis, Backoff |-> backoff, Prefix |-> prefix,
     Buckets |-> <<SmallSlow, SmallRate>>]

InitProtocol ==
    /\ config \in {ProtocolConfig("eval", NoBackoff, NoPrefix),
                   ProtocolConfig("evalsha", NoBackoff, KeyPrefix),
                   ProtocolConfig("evalsha", Exponential2, NoPrefix)}
    /\ Fresh

ProtocolCall(cost) ==
    /\ Len(log) < MaxProbes
    /\ Call(1, KeyA, cost)

NextProtocol ==
    \/ DoNewLimiter
    \/ \E cost \in Costs : ProtocolCall(cost)
    \/ \E a \in Answers : Answer(1, a.raw, a.err)
    \/ Fallback(1)
    \/ Return(1)

SpecProtocol == InitProtocol /\ [][NextProtocol]_vars

\* The remote calls of the Tests that returned and of those under way.
CallsMade ==
    {log[k].calls : k \in 1..Len(log)}
    \cup {pc[p].calls : p \in {q \in Callers : pc[q] # Idle}}

\* C11: a Test calls EvalSha first when the client has it; it calls Eval
\* after it, once and with the same keys and arguments, if and only if
\* EvalSha failed with NOSCRIPT, and returns the error of that second call; a
\* Test makes at most two remote calls, and one Eval when the client has no
\* EvalSha.
C11_FallbackOnce ==
    /\ \A c \in CallsMade :
          /\ Len(c) <= 2
          /\ Len(c) >= 1 => c[1].cmd = (IF config.Redis = "evalsha" THEN "EvalSha" ELSE "Eval")
          /\ Len(c) = 2 =>
                /\ c[1].cmd = "EvalSha" /\ c[1].err = "NOSCRIPT"
                /\ c[2].cmd = "Eval"
                /\ c[2].key = c[1].key
                /\ c[2].args = c[1].args
    /\ \A p \in Callers :
          (pc[p] # Idle /\ pc[p].cmd = "Eval" /\ config.Redis = "evalsha")
              => Len(pc[p].calls) >= 1
    /\ \A k \in 1..Len(log) :
          LET c == log[k].calls
          IN  /\ Len(c) >= 1
              /\ (c[1].cmd = "EvalSha" /\ c[1].err = "NOSCRIPT") => Len(c) = 2
              /\ config.Redis = "eval" => Len(c) = 1
              /\ c[Len(c)].err # "nil" =>
                    log[k].err = c[Len(c)].err /\ log[k].res = ZeroResult
              /\ c[Len(c)].err = "nil" => log[k].err # "NOSCRIPT"

C11_Witness ==
    /\ Len(log) = 2
    /\ Len(log[1].calls) = 2
    /\ log[1].calls[2].err = "nil"
    /\ log[1].err = "nil"
    /\ log[1].res.Allow
    /\ Len(log[2].calls) = 2
    /\ log[2].calls[2].err = UnknownError
    /\ log[2].err = UnknownError

\* C12: a Test whose EvalSha fails with an error other than NOSCRIPT makes no
\* other remote call and returns that error with the zero Result.
C12_ErrorPassing ==
    \A k \in 1..Len(log) :
        LET c == log[k].calls
        IN  (c[1].cmd = "EvalSha" /\ c[1].err \notin {"nil", "NOSCRIPT"}) =>
                /\ Len(c) = 1
                /\ log[k].err = c[1].err
                /\ log[k].res = ZeroResult

C12_Witness ==
    /\ Len(log) >= 1
    /\ log[1].calls = <<[cmd |-> "EvalSha", key |-> KeyPrefix \o KeyA,
                         args |-> <<One>> \o TheLimiter.args, err |-> UnknownError]>>
    /\ log[1].err = UnknownError
    /\ Len(remote) = 1

\* A reply of the shape the protocol names: a list of an integer 0 or 1, a
\* string encoding a number and an integer, which on a denial is the 1-based
\* ordinal of one of the limiter's n tiers.
WellFormed(raw, n) ==
    /\ raw.type = "list"
    /\ Len(raw.list) = 3
    /\ raw.list[1].type = "int"
    /\ raw.list[1].int \in {0, 1}
    /\ raw.list[2].type = "string"
    /\ ParseFloat(raw.list[2].str).ok
    /\ raw.list[3].type = "int"
    /\ raw.list[1].int = 0 => raw.list[3].int \in 1..n

\* The Test of p returns in this step.
Returns(p) == pc[p].at = "replied" /\ pc'[p] = Idle /\ Len(log') = Len(log) + 1

\* C13: a Test whose reply is not of that shape returns the protocol error
\* and the zero Result, neither allowing nor denying.
C13_ProtocolError ==
    [][\A p \in Callers :
          (/\ Returns(p)
           /\ pc[p].err = "nil"
           /\ ~WellFormed(pc[p].raw, Len(TheLimiter.args) \div 2))
              => /\ log'[Len(log')].err = InvalidType
                 /\ log'[Len(log')].res = ZeroResult]_vars

----------------------------------------------------------------------------
(* Two keys: Tests on one key among Tests on the other *)

\* The number of Tests started in a run on two keys.
MaxKeyCalls == 3

\* The last second of the server's clock in a run on two keys.
MaxKeyClock == 2

\* A tier that fills sooner than SmallSlow and drains four times as fast.
SmallQuick == RateBucket(One, F(2, 1))

\* The client has no EvalSha: every Test is one EVAL.
InitKeys ==
    /\ config = SmallConfig("eval", <<SmallSlow, SmallQuick>>)
    /\ Fresh

StartOn(p, key, cost) ==
    /\ Started < MaxKeyCalls
    /\ Call(p, key, cost)

PassKeys ==
    /\ FLt(now, F(MaxKeyClock, 1))
    /\ Tick(One)

NextKeys ==
    \/ DoNewLimiter
    \/ \E p \in Callers, key \in Keys, cost \in Costs : StartOn(p, key, cost)
    \/ \E p \in Callers : Serve(p)
    \/ \E p \in Callers : Return(p)
    \/ PassKeys

SpecKeys == InitKeys /\ [][NextKeys]_vars

\* The runs of the script on one key.
RunsOn(key) == SelectSeq(Runs, LAMBDA e : e.key = key)

\* Whether running runs[f[i]], runs[f[i + 1]], ... one after another from
\* the state st of their key, with no Test on another key among them,
\* shows the outcomes seen and leaves the key's stored state.
RECURSIVE Alone(_, _, _, _)
Alone(runs, f, i, st) ==
    IF i > Len(runs) THEN \A j \in 1..Len(runs) : st = store[runs[j].key]
    ELSE LET e == runs[f[i]]
             args == <<e.cost>> \o TheLimiter.args
             left == {out.st : out \in {o \in Evaluate(st, args, e.at) : Shows(e, args, o)}}
         IN  \E after \in left : Alone(runs, f, i + 1, after)

\* A step changes the stored state of a key only by serving a call on it.
OnlyOwnKey ==
    \A key \in Keys :
        store'[key] # store[key] =>
            \E p \in Callers : pc[p].at = "sent" /\ pc[p].key = key /\ pc'[p].at = "replied"

\* C14: a Test leaves the stored state of every other key unchanged, and
\* the outcomes of the Tests on a key and the state they leave are those of
\* the same Tests made with no Test on another key among them.
C14_KeysIndependent ==
    /\ [][OnlyOwnKey]_vars
    /\ [](\A key \in Keys :
             LET runs == RunsOn(key)
             IN  /\ runs = <<>> => store[key] = <<>>
                 /\ \E f \in Permutations(1..Len(runs)) :
                       /\ \A i \in 1..(Len(runs) - 1) : FLe(runs[f[i]].at, runs[f[i + 1]].at)
                       /\ Alone(runs, f, 1, <<>>))

\* Tests on both keys were made, and KeyB's second Test was denied for what
\* its first used while KeyA's was allowed in between.
C14_Witness ==
    /\ Len(log) = 3
    /\ log[1].key = KeyB /\ log[1].cost = F(2, 1) /\ Allowed(1)
    /\ log[2].key = KeyA /\ log[2].cost = F(2, 1) /\ Allowed(2)
    /\ log[3].key = KeyB /\ log[3].cost = One /\ Denied(3)

----------------------------------------------------------------------------
(* The script's effect on the stored state, among concurrent callers *)

\* The step is the script's run for the call of p.
Serves(p) == pc[p].at = "sent" /\ pc'[p].at = "replied" /\ pc'[p].err = "nil"

\* The tiers the cost of p's call does not fit, as the script finds them.
ViolatedBy(p) == Violations(store[pc[p].key], pc[p].args, now)

\* C15: a run of the script that finds a tier with projected > burst is a
\* denial and leaves the stored level and timestamp of every tier of every
\* key as they were.
C15_DeniedNoEffect ==
    [][\A p \in Callers :
          (Serves(p) /\ ViolatedBy(p) # {})
              => /\ pc'[p].raw.list[1].int = 0
                 /\ store' = store]_vars

\* A call was denied by one tier of two, and the key's state is the one an
\* admission left at an earlier time.
C15_Witness ==
    \E p \in Callers :
        /\ pc[p].at = "replied"
        /\ pc[p].err = "nil"
        /\ pc[p].raw.list[1].int = 0
        /\ store[pc[p].key] # <<>>
        /\ NumTiers(pc[p].args) = 2
        /\ Cardinality(Violations(store[pc[p].key], pc[p].args, pc[p].t)) = 1
        /\ \A i \in 1..2 : FLt(store[pc[p].key][i].t, pc[p].t)

\* The level and timestamp an admission at time t leaves in a tier that
\* held level at time last.
AfterAdmission(level, last, flow, cost, t) ==
    [level |-> FAdd(FMax(Zero, FSub(level, FMul(flow, FMax(Zero, FSub(t, last))))), cost),
     t |-> t]

\* The state the script's run for p leaves if it admits.
AdmissionOf(p) ==
    LET st == store[pc[p].key]
        args == pc[p].args
    IN  [i \in 1..NumTiers(args) |->
            IF st = <<>>
            THEN AfterAdmission(Zero, now, FlowOf(args, i), args[1], now)
            ELSE AfterAdmission(st[i].level, st[i].t, FlowOf(args, i), args[1], now)]

\* C16: an admission at time now leaves in every tier of the key
\* max(0, level - flow * max(0, now - t)) + cost and the timestamp now,
\* and in every reachable state the tiers of a key were all written by the
\* same run.
C16_CommitsTogether ==
    /\ [][\A p \in Callers :
             (Serves(p) /\ pc'[p].raw.list[1].int = 1)
                 => store' = [store EXCEPT ![pc[p].key] = AdmissionOf(p)]]_vars
    /\ [](\A key \in Keys :
             \/ store[key] = <<>>
             \/ /\ Len(store[key]) = Len(TheLimiter.args) \div 2
                /\ \A i, j \in 1..Len(store[key]) : store[key][i].t = store[key][j].t)

\* An admission was committed to two tiers that held decayed levels of an
\* earlier one.
C16_Witness ==
    \E key \in Keys :
        /\ store[key] # <<>>
        /\ Len(store[key]) = 2
        /\ FGt(store[key][1].t, One)
        /\ FGt(store[key][1].level, store[key][2].level)
        /\ FGt(store[key][2].level, One)

----------------------------------------------------------------------------
(* The Result of a Test, among concurrent callers *)

\* The least of a set of numbers.
Least(S) == CHOOSE m \in S : \A x \in S : FLe(m, x)

\* burst_i - projected_i of every tier, as the script's run for p finds them.
Room(p) ==
    {FSub(BurstOf(pc[p].args, i), Projected(store[pc[p].key], pc[p].args, i, now)) :
        i \in 1..NumTiers(pc[p].args)}

Bursts(p) == {BurstOf(pc[p].args, i) : i \in 1..NumTiers(pc[p].args)}

\* C17: a run of the script that finds no violating tier replies an
\* admission whose value is the least burst_i - projected_i, which is not
\* negative; on a key with no state and a cost within every burst that is
\* the smallest burst less the cost; and the Test returns Allow = true,
\* Wait = 0 and that value as Free.
C17_Admission ==
    /\ [][\A p \in Callers :
             (Serves(p) /\ ViolatedBy(p) = {})
                 => /\ pc'[p].raw.list[1].int = 1
                    /\ FLe(Zero, Least(Room(p)))
                    /\ pc'[p].raw.list[2].str = FormatNumber(Least(Room(p)))
                    /\ ParseFloat(pc'[p].raw.list[2].str).v = Least(Room(p))]_vars
    /\ [][\A p \in Callers :
             (/\ Serves(p)
              /\ store[pc[p].key] = <<>>
              /\ \A b \in Bursts(p) : FLe(pc[p].args[1], b))
                 => /\ pc'[p].raw.list[1].int = 1
                    /\ ParseFloat(pc'[p].raw.list[2].str).v
                          = FSub(Least(Bursts(p)), pc[p].args[1])]_vars
    /\ [][\A p \in Callers :
             (Returns(p) /\ pc[p].err = "nil" /\ pc[p].raw.list[1].int = 1)
                 => /\ log'[Len(log')].err = "nil"
                    /\ log'[Len(log')].res
                          = [Allow |-> TRUE, Free |-> ParseFloat(pc[p].raw.list[2].str).v,
                             Wait |-> 0]]_vars

\* Two Tests on a key of two tiers were admitted a second apart, the second
\* with less free capacity than the first and more than none.
C17_Witness ==
    /\ Len(log) >= 2
    /\ Len(TheLimiter.args) = 4
    /\ Allowed(1) /\ Allowed(2)
    /\ log[1].key = log[2].key
    /\ FLt(log[1].at, log[2].at)
    /\ FLt(log[2].res.Free, log[1].res.Free)
    /\ FGt(log[2].res.Free, Zero)

----------------------------------------------------------------------------
(* The reply of a denial, among concurrent callers *)

\* (projected_i - burst_i) / flow_i, as the script's run for p finds it.
Required(p, i) ==
    FDiv(FSub(Projected(store[pc[p].key], pc[p].args, i, now), BurstOf(pc[p].args, i)),
         FlowOf(pc[p].args, i))

----------------------------------------------------------------------------
(* The Result of a denial, on any implementation of Eval and EvalSha *)

\* The backoff of the Config, Linear(2) when it has none.
Configured == IF config.Backoff = NoBackoff THEN Linear2 ELSE config.Backoff

\* The flow of the i-th tier, counted from 1, of the constructed limiter.
FlowOfTier(i) == TheLimiter.args[2 * i - 1]

\* C19: a Test of cost c whose reply is the denial (excess, index) returns
\* no error, Allow = false, Free = 0 and the Wait
\* (c / flow_index) * backoff(excess / c) seconds, cut to whole ticks, where
\* flow_index is the flow of the index-th tier of the limiter and backoff is
\* the Config's, or Linear(2) when the Config has none.
C19_DenialResult ==
    [][\A p \in Callers :
          (/\ Returns(p)
           /\ pc[p].err = "nil"
           /\ WellFormed(pc[p].raw, Len(TheLimiter.args) \div 2)
           /\ pc[p].raw.list[1].int = 0)
              => LET c == pc[p].args[1]
                     excess == ParseFloat(pc[p].raw.list[2].str).v
                     flow == FlowOfTier(pc[p].raw.list[3].int)
                     wait == FMul(FDiv(c, flow), Backoff(Configured, FDiv(excess, c)))
                 IN  /\ log'[Len(log')].err = "nil"
                     /\ log'[Len(log')].res.Allow = FALSE
                     /\ log'[Len(log')].res.Free = Zero
                     /\ log'[Len(log')].res.Wait \in ToDuration(FMul(wait, F(Second, 1)))]_vars

\* With no backoff configured a Test of cost 1 was denied by the second tier,
\* of flow 1/2, with excess 1.5, and waits 2 * 2 * 1.5 seconds; another was
\* denied by the first tier, of flow 1/4, and waits 4 * 2 * 1.5 seconds.
C19_Witness ==
    /\ config.Backoff = NoBackoff
    /\ Len(log) = 2
    /\ log[1].cost = One /\ Denied(1) /\ log[1].res.Wait = 6 * Second
    /\ log[2].cost = One /\ Denied(2) /\ log[2].res.Wait = 12 * Second

----------------------------------------------------------------------------
(* A server clock that goes back as well as forward *)

\* The number of Tests made in a run on the unsteady clock.
MaxDriftCalls == 3

\* The last second the unsteady clock reads.
MaxDrift == 3

InitDrift ==
    /\ config = SmallConfig("eval", <<SmallSlow, SmallQuick>>)
    /\ Fresh

DriftCall(cost) ==
    /\ Started < MaxDriftCalls
    /\ Call(1, KeyA, cost)

Forward ==
    /\ FLt(now, F(MaxDrift, 1))
    /\ Tick(One)

Backward ==
    /\ FGt(now, One)
    /\ Tick(F(-1, 1))

NextDrift ==
    \/ DoNewLimiter
    \/ \E cost \in Costs : DriftCall(cost)
    \/ Serve(1)
    \/ Return(1)
    \/ Forward
    \/ Backward

SpecDrift == InitDrift /\ [][NextDrift]_vars

\* The clock reads a time before the key's stored timestamps.
Behind(p) ==
    /\ store[pc[p].key] # <<>>
    /\ \A i \in 1..NumTiers(pc[p].args) : FLt(now, store[pc[p].key][i].t)

\* The levels of a stored state.
Levels(st) == [i \in 1..Len(st) |-> st[i].level]

\* C20: the level a run of the script decays a tier to is at least 0 and at
\* most the stored level, so an admission leaves at most the stored level
\* plus the cost; and when the clock reads a time before the stored
\* timestamps, the reply and the levels left are those of a run at the
\* stored time.
C20_BackwardClock ==
    [][\A p \in Callers :
          (Serves(p) /\ store[pc[p].key] # <<>>)
              => LET st == store[pc[p].key]
                     args == pc[p].args
                 IN  /\ \A i \in 1..NumTiers(args) :
                           /\ FLe(Zero, Decayed(st, args, i, now))
                           /\ FLe(Decayed(st, args, i, now), st[i].level)
                     /\ pc'[p].raw.list[1].int = 1 =>
                           \A i \in 1..NumTiers(args) :
                               /\ FLe(args[1], store'[pc[p].key][i].level)
                               /\ FLe(store'[pc[p].key][i].level, FAdd(st[i].level, args[1]))
                     /\ Behind(p) =>
                           \E o \in Evaluate(st, args, st[1].t) :
                               /\ pc'[p].raw = o.raw
                               /\ Levels(store'[pc[p].key]) = Levels(o.st)]_vars

\* A Test was admitted at a time before the one of the admission before it,
\* and found the whole level of that admission.
C20_Witness ==
    /\ Len(log) = 2
    /\ Allowed(1) /\ Allowed(2)
    /\ log[1].cost = One /\ log[2].cost = One
    /\ FLt(log[2].at, log[1].at)
    /\ log[2].res.Free = Zero

----------------------------------------------------------------------------
(* The full list of tiers beside the consolidated one *)

\* The number of Tests made in a run on a list with redundant tiers.
MaxFullCalls == 3

\* The last second of the clock in such a run.
MaxFullClock == 3

\* Valid rates, some of them redundant beside others.
FullRates ==
    {RateBucket(F(1, 4), F(3, 1)), RateBucket(Half, F(2, 1)),
     RateBucket(One, F(2, 1)), RateBucket(Half, F(3, 1))}

InitFull ==
    /\ config \in {SmallConfig("eval", b) : b \in [1..2 -> FullRates] \cup [1..3 -> FullRates]}
    /\ Fresh

FullCall(cost) ==
    /\ Started < MaxFullCalls
    /\ Call(1, KeyA, cost)

FullPass ==
    /\ FLt(now, F(MaxFullClock, 1))
    /\ Tick(One)

NextFull ==
    \/ DoNewLimiter
    \/ \E cost \in Costs : FullCall(cost)
    \/ Serve(1)
    \/ Return(1)
    \/ FullPass

SpecFull == InitFull /\ [][NextFull]_vars

\* The resolved rates of the Config, none dropped, as the script's arguments.
FullArgs == Flatten(Resolve(config.Buckets))

\* What a Test of the cost may return when the script runs on st at time t
\* with the tiers args.
Decisions(st, args, cost, t) ==
    UNION {Decode(TheLimiter, <<cost>> \o args, o.raw, "nil") :
              o \in Evaluate(st, <<cost>> \o args, t)}

\* The state the script leaves, which does not depend on the index it replies.
Left(st, args, cost, t) == (CHOOSE o \in Evaluate(st, <<cost>> \o args, t) : TRUE).st

\* Whether the Tests log[k], log[k + 1], ... return the same on the full
\* list from the state full as on the consolidated list from the state kept,
\* and that is what they returned.
RECURSIVE SameDecisions(_, _, _)
SameDecisions(k, full, kept) ==
    IF k > Len(log) THEN kept = store[KeyA]
    ELSE LET e == log[k]
         IN  /\ Decisions(full, FullArgs, e.cost, e.at)
                   = Decisions(kept, TheLimiter.args, e.cost, e.at)
             /\ [res |-> e.res, err |-> e.err]
                   \in Decisions(full, FullArgs, e.cost, e.at)
             /\ SameDecisions(k + 1, Left(full, FullArgs, e.cost, e.at),
                              Left(kept, TheLimiter.args, e.cost, e.at))

\* C21: the Tests made on the consolidated list return, each of them, the
\* Allow, Free and Wait that the same Tests at the same times return when
\* the script runs on the full list of tiers.
C21_PruningKeepsDecisions ==
    (Constructed /\ pc[1] = Idle) => SameDecisions(1, <<>>, <<>>)

\* Three Tests were made on a list of three tiers of which one was dropped,
\* the first admitted and the last denied after time had passed.
C21_Witness ==
    /\ Len(log) = 3
    /\ Len(config.Buckets) = 3
    /\ Len(TheLimiter.args) = 4
    /\ Allowed(1)
    /\ Denied(3)
    /\ FLt(log[1].at, log[3].at)

----------------------------------------------------------------------------
(* The stored levels, with costs above a burst among the Tests *)

\* The number of Tests made in a run with costs above a burst.
MaxLevelCalls == 3

\* The last second of the clock in such a run.
MaxLevelClock == 3

\* Costs within every burst, and one above the smallest.
AnyCosts == Costs \cup {F(3, 1)}

InitLevels ==
    /\ config \in {SmallConfig("evalsha", <<SmallCapacity>>),
                   SmallConfig("evalsha", <<SmallSlow, SmallQuick>>)}
    /\ Fresh

LevelCall(key, cost) ==
    /\ Started < MaxLevelCalls
    /\ Call(1, key, cost)

LevelPass ==
    /\ FLt(now, F(MaxLevelClock, 1))
    /\ Tick(One)

NextLevels ==
    \/ DoNewLimiter
    \/ \E key \in Keys, cost \in AnyCosts : LevelCall(key, cost)
    \/ Serve(1)
    \/ Fallback(1)
    \/ Return(1)
    \/ LevelPass

SpecLevels == InitLevels /\ [][NextLevels]_vars

\* The burst of the i-th tier, counted from 1, of the constructed limiter.
BurstOfTier(i) == TheLimiter.args[2 * i]

\* C22: every stored level of every key is at least 0 and at most the burst
\* of its tier, and every Test of a cost above the burst of some tier is
\* denied.
C22_LevelWithinBurst ==
    /\ \A key \in Keys :
          store[key] # <<>> =>
              \A i \in 1..Len(store[key]) :
                  /\ FLe(Zero, store[key][i].level)
                  /\ FLe(store[key][i].level, BurstOfTier(i))
    /\ \A k \in 1..Len(log) :
          (\E i \in 1..(Len(TheLimiter.args) \div 2) : FGt(log[k].cost, BurstOfTier(i)))
              => Denied(k)

\* A Test of a cost above a burst was denied on a key with no state, its
\* EvalSha having failed first, and another on a key that an admission at a
\* later time had filled to the burst of a tier.
C22_Witness ==
    /\ Len(log) = 3
    /\ Len(log[1].calls) = 2
    /\ log[1].key = KeyB /\ log[1].cost = F(3, 1) /\ Denied(1)
    /\ store[KeyB] = <<>>
    /\ log[2].key = KeyA /\ Allowed(2) /\ FLt(log[1].at, log[2].at)
    /\ \E i \in 1..Len(store[KeyA]) : store[KeyA][i].level = BurstOfTier(i)
    /\ log[3].key = KeyA /\ log[3].cost = F(3, 1) /\ Denied(3)

----------------------------------------------------------------------------
(* A caller that obeys the Wait of a denial *)

\* The number of Tests made in a run of the obeying caller.
MaxWaitCalls == 3

\* The last second at which the clock steps on its own in such a run.
MaxWaitClock == 2

\* A rate that drains four units a second.
Draining == RateBucket(F(4, 1), One)

\* Costs within the burst of Draining: two of them together just above it.
WaitCosts == {Half, F(501, 1000), One}

\* No Backoff is configured: NewLimiter takes Linear(2).
InitWait ==
    /\ config \in {SmallConfig("eval", <<Draining>>),
                   SmallConfig("eval", <<SmallSlow, SmallQuick>>)}
    /\ Fresh

WaitCall(cost) ==
    /\ Started < MaxWaitCalls
    /\ Call(1, KeyA, cost)

\* The caller sleeps the Wait of the denial it has just got, or longer.
Obey(extra) ==
    /\ pc[1] = Idle
    /\ Len(log) >= 1
    /\ Denied(Len(log))
    /\ log[Len(log)].at = now
    /\ Tick(FAdd(F(log[Len(log)].res.Wait, Second), extra))

WaitPass ==
    /\ FLt(now, F(MaxWaitClock, 1))
    /\ Tick(One)

NextWait ==
    \/ DoNewLimiter
    \/ \E cost \in WaitCosts : WaitCall(cost)
    \/ Serve(1)
    \/ Return(1)
    \/ \E extra \in {Zero, One} : Obey(extra)
    \/ WaitPass

SpecWait == InitWait /\ [][NextWait]_vars

\* The cost of the k-th Test is within the burst of every tier.
WithinBursts(k) ==
    \A i \in 1..(Len(TheLimiter.args) \div 2) : FLe(log[k].cost, BurstOfTier(i))

\* The k-th Test is made when the Wait of the j-th, a denial, is over, with
\* the same cost and no admission between the two.
Obeys(j, k) ==
    /\ j < k
    /\ Denied(j)
    /\ log[k].err = "nil"
    /\ log[k].cost = log[j].cost
    /\ log[k].key = log[j].key
    /\ WithinBursts(j)
    /\ FLe(FAdd(log[j].at, F(log[j].res.Wait, Second)), log[k].at)
    /\ \A m \in (j + 1)..(k - 1) : ~Allowed(m)

\* C23: under Linear(2), a Test made when the Wait of a denial of the same
\* cost is over, with no admission on the key in between, is admitted.
C23_WaitLeadsToAdmission ==
    \A j, k \in 1..Len(log) : Obeys(j, k) => Allowed(k)

====
